---- MODULE Spec2Model ----
(***************************************************************************)
(* The photobooth server (server/main.py): the archive store on disk, the  *)
(* /api/run submission handler, and finalize_job with its three entry      *)
(* points (background task, /api/finalize, /api/download).                 *)
(*                                                                         *)
(* The server is one asyncio event loop: a coroutine runs without          *)
(* interruption from one await to the next.  Every action below is one     *)
(* such stretch of code.                                                   *)
(***************************************************************************)
EXTENDS Integers, FiniteSets, Sequences, TLC

\* ------------------------------------------------------------------ bounds

\* `for _ in range(300)` in finalize_job.
MaxAttempts == 300

\* How many attempts of a poll loop the whole-server specification follows
\* one by one before it strides to the last one.
EarlyAttempts == 1

Arch == {"a1"}
Task == {"t1", "t2"}
Urls == {"u1", "u2"}
Procs == {"p1", "p2"}
Templates == {"fai_chun_01", "fai_chun_99"}

\* A dict key that is not set, and the value of Python's None.
Absent == "absent"
Null == "null"
NoUrl == "nourl"
NoBytes == "nobytes"

\* The seed form field: not given, or given
Seeds == {Null, "42"}

VARIABLES
    envOk,      \* API_KEY and WORKFLOW_ID are both non-empty
    gdrive,     \* GDRIVE_ENABLED
    dirs,       \* archive ids whose directory exists under ARCHIVE_DIR
    inputJpg,   \* archive ids whose input.jpg exists
    hasMeta,    \* archive ids whose meta.json exists
    metaJson,   \* the dict stored in meta.json, per archive id
    outputPng,  \* the bytes of output.png, per archive id (NoBytes: no file)
    run,        \* the /api/run request in flight
    pending,    \* background tasks added by /api/run and not yet started
    fin,        \* requests and tasks that call finalize_job, per slot
    res,        \* the /api/result request in flight
    call        \* a call of one of the pure helpers: its argument and its result

vars == <<envOk, gdrive, dirs, inputJpg, hasMeta, metaJson, outputPng, run, pending, fin, res, call>>

\* ------------------------------------------------------------- job record

MetaKeys == {"archiveId", "taskId", "templateId", "seed", "createdAt", "driveFolderId",
             "finalizeError", "outputUrl", "finalizedAt", "driveOutputUploadedAt"}

\* `meta: Dict[str, Any] = {}`
EmptyMeta == [k \in MetaKeys |-> Absent]

\* d[k] = v for each pair of kv, in order
RECURSIVE SetKeys(_, _)
SetKeys(d, kv) ==
    IF kv = <<>> THEN d
    ELSE SetKeys([d EXCEPT ![kv[1][1]] = kv[1][2]], Tail(kv))

\* The bytes the GET of a URL answers with.
Content(u) == CASE u = "u1" -> "png1" [] u = "u2" -> "png2" [] OTHER -> NoBytes

\* ------------------------------------------------------------ JSON values
\* A JSON value is a record [k, s, items]: k is its kind, s the text of a
\* string, items the entries of a list (key "") or of a dict, in order.

JNull == [k |-> "null", s |-> "", items |-> <<>>]
JStr(x) == [k |-> "str", s |-> x, items |-> <<>>]
JNum == [k |-> "num", s |-> "", items |-> <<>>]
JItem(key, v) == [key |-> key, val |-> v]
JList(vs) == [k |-> "list", s |-> "", items |-> [i \in DOMAIN vs |-> JItem("", vs[i])]]
JDict(kvs) == [k |-> "dict", s |-> "", items |-> [i \in DOMAIN kvs |-> JItem(kvs[i][1], kvs[i][2])]]

\* dict.get(key): the value under key, None when the key is not set
Get(d, key) ==
    IF \E i \in DOMAIN d.items : d.items[i].key = key
    THEN d.items[CHOOSE i \in DOMAIN d.items : d.items[i].key = key].val
    ELSE JNull

HasKey(d, key) == \E i \in DOMAIN d.items : d.items[i].key = key

\* Python's truth value: None, "" and empty containers are false
Truthy(v) ==
    CASE v.k = "null" -> FALSE
      [] v.k = "str" -> v.s # ""
      [] v.k = "num" -> TRUE
      [] OTHER -> v.items # <<>>

\* Python's `a or b`
Or(a, b) == IF Truthy(a) THEN a ELSE b

\* v.startswith("http")
StartsWithHttp(x) == x \in Urls

extract_task_id(resp) ==
    LET data == Get(resp, "data") IN
    IF data.k = "dict"
    THEN Or(Or(Get(data, "taskId"), Get(data, "task_id")), Get(data, "id"))
    ELSE IF data.k = "str"
    THEN data
    ELSE Or(Get(resp, "taskId"), Get(resp, "task_id"))

\* The candidate keys in the opposite order
CandidateKeys_Reversed == <<"path", "file", "url", "fileUrl">>

CandidateKeys == <<"fileUrl", "url", "file", "path">>

\* The strings walk() appends to `found`, in order.
RECURSIVE walk(_)
RECURSIVE walkAll(_)
walkAll(items) ==
    IF items = <<>> THEN <<>> ELSE walk(Head(items).val) \o walkAll(Tail(items))

walk(x) ==
    IF x.k = "list" THEN walkAll(x.items)
    ELSE IF x.k = "dict" THEN
        LET hit(i) == LET v == Get(x, CandidateKeys[i]) IN
                      IF v.k = "str" /\ StartsWithHttp(v.s) THEN <<v.s>> ELSE <<>>
        IN hit(1) \o hit(2) \o hit(3) \o hit(4) \o walkAll(x.items)
    ELSE <<>>

find_first_http_url(obj) ==
    LET found == walk(obj) IN IF found # <<>> THEN found[1] ELSE NoUrl

\* -------------------------------------------------------------- upstream
\* What the RunningHub endpoints may answer.  rh_post_json raises on a
\* network error or an HTTP status >= 400 ("raise"), and returns the body
\* otherwise; a body that is not JSON comes back as {"raw": text}.

RawBody == JDict(<< <<"raw", JStr("<html>")>> >>)

CreateBodies == <<
    JDict(<< <<"code", JNum>>, <<"data", JDict(<< <<"taskId", JStr("t1")>> >>)>> >>),
    JDict(<< <<"data", JStr("t1")>> >>),
    JDict(<< <<"task_id", JStr("t1")>> >>),
    JDict(<< <<"code", JNum>>, <<"msg", JStr("APIKEY_INVALID")>>, <<"data", JNull>> >>),
    RawBody >>

OutputBodies == <<
    JDict(<< <<"code", JNum>>, <<"msg", JStr("running")>>, <<"data", JNull>> >>),
    JDict(<< <<"data", JList(<< JDict(<< <<"fileUrl", JStr("u1")>>, <<"fileType", JStr("png")>> >>) >>)>> >>),
    JDict(<< <<"fileUrl", JStr("u2")>> >>),
    JDict(<< <<"data", JDict(<< <<"path", JStr("/tmp/out.png")>>, <<"result", JDict(<< <<"url", JStr("u2")>> >>)>> >>)>> >>),
    RawBody >>

Raise == 0
CreateAnswers == {Raise} \cup DOMAIN CreateBodies
OutputAnswers == {Raise} \cup DOMAIN OutputBodies

\* `out.get("data", out)`, then find_first_http_url: the URL one poll yields
PolledUrl(ans) ==
    IF ans = Raise THEN NoUrl
    ELSE LET out == OutputBodies[ans]
             data == IF HasKey(out, "data") THEN Get(out, "data") ELSE out
         IN find_first_http_url(data)


\* ----------------------------------------------------------------- state

NoArch == "noarch"

\* A slot of `fin` that holds no request.
IdleSlot ==
    [pc |-> "idle", origin |-> "none", task_id |-> "none", archive_id |-> NoArch,
     meta |-> EmptyMeta, image_url |-> NoUrl, attempts |-> 0, polled |-> "none",
     outcome |-> "none", http |-> "none"]

IdleRun ==
    [pc |-> "idle", archive_id |-> NoArch, templateId |-> "none", seed |-> "none",
     drive_folder_id |-> Null, create |-> "none", task_id |-> "none", http |-> "none"]

IdleResult == [pc |-> "idle", taskId |-> "none", polled |-> "none", http |-> "none"]

\* No helper is being called on its own.
NoCall == [fn |-> "none", arg |-> JNull, returned |-> FALSE, ret |-> JNull]

Init ==
    /\ envOk \in BOOLEAN
    /\ gdrive \in BOOLEAN
    /\ dirs = {}
    /\ inputJpg = {}
    /\ hasMeta = {}
    /\ metaJson = [a \in Arch |-> EmptyMeta]
    /\ outputPng = [a \in Arch |-> NoBytes]
    /\ run = IdleRun
    /\ pending = {}
    /\ fin = [p \in Procs |-> IdleSlot]
    /\ res = IdleResult
    /\ call = NoCall

\* output_path.exists()
OutputExists(a) == outputPng[a] # NoBytes

\* A slot is free once its request has been answered; a request takes the
\* first free slot.
Answered(p) == fin[p].pc \in {"idle", "done"}
Free(p) == Answered(p) /\ (p = "p2" => ~Answered("p1"))

\* The record of an answered request is kept until the next request arrives.
Reaped(f) == [q \in Procs |-> IF f[q].pc = "done" THEN IdleSlot ELSE f[q]]

\* The handler's answer once finalize_job has returned or raised.
HandlerAnswer(origin, outcome, exists) ==
    CASE origin = "background" -> "none"
      [] outcome = "raised" -> "500"
      [] origin = "finalize" -> "200ok"
      [] origin = "download" -> IF exists THEN "200file" ELSE "404"
      [] OTHER -> "none"

\* finalize_job is over: its locals are gone, the request is answered.
Finish(s, outcome, exists) ==
    [s EXCEPT !.pc = "done", !.outcome = outcome, !.meta = EmptyMeta,
              !.http = HandlerAnswer(s.origin, outcome, exists)]

\* ---------------------------------------------------------------- /api/run

\* require_env
require_env == envOk

\* api_run up to its await of the create call
RunBegin(tpl, seedIn, folderOk, uploadOk) ==
    /\ run.pc \in {"idle", "done"}
    /\ IF ~require_env
       THEN /\ run' = [IdleRun EXCEPT !.pc = "done", !.http = "500"]
            /\ UNCHANGED <<dirs, inputJpg>>
       ELSE \E a \in Arch \ dirs :
            /\ dirs' = dirs \cup {a}
            /\ inputJpg' = inputJpg \cup {a}
            /\ run' = [IdleRun EXCEPT
                         !.pc = "creating", !.archive_id = a, !.templateId = tpl,
                         !.seed = IF seedIn = Null THEN "random" ELSE seedIn,
                         !.drive_folder_id =
                             IF gdrive /\ folderOk /\ uploadOk THEN "folder" ELSE Null]
    /\ fin' = Reaped(fin)
    /\ UNCHANGED <<call, envOk, gdrive, hasMeta, metaJson, outputPng, pending, res>>

\* RunCreateResp that adds the background task before it looks at the task
\* id
RunCreateResp_ScheduleFirst(ans) ==
    /\ run.pc = "creating"
    /\ LET task_id == IF ans = Raise THEN JNull ELSE extract_task_id(CreateBodies[ans])
           a == run.archive_id
       IN IF ans = Raise
          THEN /\ run' = [IdleRun EXCEPT !.pc = "done", !.archive_id = a,
                                         !.create = "failed", !.http = "500"]
               /\ UNCHANGED <<hasMeta, metaJson, pending>>
          ELSE IF ~Truthy(task_id)
          THEN /\ pending' = pending \cup {<<"none", a>>}
               /\ run' = [IdleRun EXCEPT !.pc = "done", !.archive_id = a,
                                         !.create = "failed", !.http = "500"]
               /\ UNCHANGED <<hasMeta, metaJson>>
          ELSE /\ metaJson' = [metaJson EXCEPT ![a] =
                     SetKeys(EmptyMeta,
                        << <<"archiveId", a>>, <<"taskId", task_id.s>>,
                           <<"templateId", run.templateId>>, <<"seed", run.seed>>,
                           <<"createdAt", "ts">>,
                           <<"driveFolderId", run.drive_folder_id>> >>)]
               /\ hasMeta' = hasMeta \cup {a}
               /\ pending' = pending \cup {<<task_id.s, a>>}
               /\ run' = [IdleRun EXCEPT !.pc = "done", !.archive_id = a, !.create = "ok",
                                         !.task_id = task_id.s, !.http = "200"]
    /\ UNCHANGED <<call, envOk, gdrive, dirs, inputJpg, outputPng, fin, res>>

\* api_run from the answer of the create call to its return
RunCreateResp(ans) ==
    /\ run.pc = "creating"
    /\ LET task_id == IF ans = Raise THEN JNull ELSE extract_task_id(CreateBodies[ans])
           a == run.archive_id
       IN IF ~Truthy(task_id)
          THEN /\ run' = [IdleRun EXCEPT !.pc = "done", !.archive_id = a,
                                         !.create = "failed", !.http = "500"]
               /\ UNCHANGED <<hasMeta, metaJson, pending>>
          ELSE /\ metaJson' = [metaJson EXCEPT ![a] =
                     SetKeys(EmptyMeta,
                        << <<"archiveId", a>>, <<"taskId", task_id.s>>,
                           <<"templateId", run.templateId>>, <<"seed", run.seed>>,
                           <<"createdAt", "ts">>,
                           <<"driveFolderId", run.drive_folder_id>> >>)]
               /\ hasMeta' = hasMeta \cup {a}
               /\ pending' = pending \cup {<<task_id.s, a>>}
               /\ run' = [IdleRun EXCEPT !.pc = "done", !.archive_id = a, !.create = "ok",
                                         !.task_id = task_id.s, !.http = "200"]
    /\ UNCHANGED <<call, envOk, gdrive, dirs, inputJpg, outputPng, fin, res>>

\* ------------------------------------------------------------- /api/result

\* api_result up to its await of the outputs call
ResultBegin(taskId) ==
    /\ res.pc \in {"idle", "done"}
    /\ res' = IF ~require_env
              THEN [IdleResult EXCEPT !.pc = "done", !.taskId = taskId, !.http = "500"]
              ELSE [IdleResult EXCEPT !.pc = "waiting", !.taskId = taskId, !.polled = taskId]
    /\ UNCHANGED <<call, envOk, gdrive, dirs, inputJpg, hasMeta, metaJson, outputPng, run, pending, fin>>

\* api_result from the answer of the outputs call to its return
ResultAnswer(ans) ==
    /\ res.pc = "waiting"
    /\ res' = [res EXCEPT !.pc = "done",
                          !.http = IF ans = Raise THEN "500"
                                   ELSE IF PolledUrl(ans) # NoUrl THEN "200ready"
                                   ELSE "200notready"]
    /\ UNCHANGED <<call, envOk, gdrive, dirs, inputJpg, hasMeta, metaJson, outputPng, run, pending, fin>>

\* ------------------------------------------------------------ finalize_job

\* FinalizeEntry without the `if output_path.exists(): return` guard
FinalizeEntry_NoGuard(p, origin, t, a) ==
    LET s == [IdleSlot EXCEPT !.origin = origin, !.task_id = t, !.archive_id = a,
                              !.meta = IF a \in hasMeta THEN metaJson[a] ELSE EmptyMeta]
    IN /\ dirs' = dirs \cup {a}
       /\ fin' = [Reaped(fin) EXCEPT ![p] = [s EXCEPT !.pc = "polling"]]

\* FinalizeEntry that does not read meta.json: meta stays {}
FinalizeEntry_NoRead(p, origin, t, a) ==
    LET s == [IdleSlot EXCEPT !.origin = origin, !.task_id = t, !.archive_id = a]
    IN /\ dirs' = dirs \cup {a}
       /\ fin' = [Reaped(fin) EXCEPT ![p] =
                     IF OutputExists(a) THEN Finish(s, "already", TRUE)
                     ELSE [s EXCEPT !.pc = "polling"]]

\* FinalizeEntry whose guard also returns when meta.json holds finalizeError
FinalizeEntry_StopAfterError(p, origin, t, a) ==
    LET s == [IdleSlot EXCEPT !.origin = origin, !.task_id = t, !.archive_id = a,
                              !.meta = IF a \in hasMeta THEN metaJson[a] ELSE EmptyMeta]
    IN /\ dirs' = dirs \cup {a}
       /\ fin' = [Reaped(fin) EXCEPT ![p] =
                     IF OutputExists(a) THEN Finish(s, "already", TRUE)
                     ELSE IF s.meta["finalizeError"] # Absent THEN Finish(s, "already", FALSE)
                     ELSE [s EXCEPT !.pc = "polling"]]

\* finalize_job from its call to its first await (or its early return)
FinalizeEntry(p, origin, t, a) ==
    LET s == [IdleSlot EXCEPT !.origin = origin, !.task_id = t, !.archive_id = a,
                              !.meta = IF a \in hasMeta THEN metaJson[a] ELSE EmptyMeta]
    IN /\ dirs' = dirs \cup {a}
       /\ fin' = [Reaped(fin) EXCEPT ![p] =
                     IF OutputExists(a) THEN Finish(s, "already", TRUE)
                     ELSE [s EXCEPT !.pc = "polling"]]

\* The task id one poll sends upstream.
PollTask(s) == s.task_id

\* Poll whose timeout branch returns without recording finalizeError
Poll_SilentTimeout(p, n, ans) ==
    /\ fin[p].pc = "polling"
    /\ n >= 1
    /\ fin[p].attempts + n <= MaxAttempts
    /\ LET s == [fin[p] EXCEPT !.attempts = @ + n, !.polled = PollTask(fin[p])]
           a == s.archive_id
           url == PolledUrl(ans)
       IN fin' = [fin EXCEPT ![p] =
                    IF url # NoUrl THEN [s EXCEPT !.image_url = url, !.pc = "downloading"]
                    ELSE IF s.attempts < MaxAttempts THEN s
                    ELSE Finish(s, "timeout", OutputExists(a))]
    /\ UNCHANGED <<call, envOk, gdrive, dirs, inputJpg, hasMeta, metaJson, outputPng, run, pending, res>>

\* Poll without the `break`: the loop goes on after a URL was found
Poll_NoBreak(p, n, ans) ==
    /\ fin[p].pc = "polling"
    /\ n >= 1
    /\ fin[p].attempts + n <= MaxAttempts
    /\ LET s == [fin[p] EXCEPT !.attempts = @ + n, !.polled = PollTask(fin[p]),
                               !.image_url = PolledUrl(ans)]
           a == s.archive_id
       IN IF s.attempts < MaxAttempts
          THEN /\ fin' = [fin EXCEPT ![p] = s]
               /\ UNCHANGED <<hasMeta, metaJson>>
          ELSE IF s.image_url # NoUrl
          THEN /\ fin' = [fin EXCEPT ![p] = [s EXCEPT !.pc = "downloading"]]
               /\ UNCHANGED <<hasMeta, metaJson>>
          ELSE LET m == [s.meta EXCEPT !["finalizeError"] = "Timeout"]
               IN /\ metaJson' = [metaJson EXCEPT ![a] = m]
                  /\ hasMeta' = hasMeta \cup {a}
                  /\ fin' = [fin EXCEPT ![p] = Finish(s, "timeout", OutputExists(a))]
    /\ UNCHANGED <<call, envOk, gdrive, dirs, inputJpg, outputPng, run, pending, res>>

\* Poll without the try/except: an exception of rh_post_json leaves
\* finalize_job
Poll_AbortOnError(p, n, ans) ==
    /\ fin[p].pc = "polling"
    /\ n >= 1
    /\ fin[p].attempts + n <= MaxAttempts
    /\ LET s == [fin[p] EXCEPT !.attempts = @ + n, !.polled = PollTask(fin[p])]
           a == s.archive_id
           url == PolledUrl(ans)
       IN IF ans = Raise
          THEN /\ fin' = [fin EXCEPT ![p] = Finish(s, "raised", OutputExists(a))]
               /\ UNCHANGED <<hasMeta, metaJson>>
          ELSE IF url # NoUrl
          THEN /\ fin' = [fin EXCEPT ![p] = [s EXCEPT !.image_url = url, !.pc = "downloading"]]
               /\ UNCHANGED <<hasMeta, metaJson>>
          ELSE IF s.attempts < MaxAttempts
          THEN /\ fin' = [fin EXCEPT ![p] = s]
               /\ UNCHANGED <<hasMeta, metaJson>>
          ELSE LET m == [s.meta EXCEPT !["finalizeError"] = "Timeout"]
               IN /\ metaJson' = [metaJson EXCEPT ![a] = m]
                  /\ hasMeta' = hasMeta \cup {a}
                  /\ fin' = [fin EXCEPT ![p] = Finish(s, "timeout", OutputExists(a))]
    /\ UNCHANGED <<call, envOk, gdrive, dirs, inputJpg, outputPng, run, pending, res>>

\* n iterations of the poll loop, of which the first n-1 answers bear no URL
\* (such an iteration changes nothing but the loop's own position) and the
\* n-th answer is ans; after the last iteration, the timeout branch.
Poll(p, n, ans) ==
    /\ fin[p].pc = "polling"
    /\ n >= 1
    /\ fin[p].attempts + n <= MaxAttempts
    /\ LET s == [fin[p] EXCEPT !.attempts = @ + n, !.polled = PollTask(fin[p])]
           a == s.archive_id
           url == PolledUrl(ans)
       IN IF url # NoUrl
          THEN /\ fin' = [fin EXCEPT ![p] = [s EXCEPT !.image_url = url, !.pc = "downloading"]]
               /\ UNCHANGED <<hasMeta, metaJson>>
          ELSE IF s.attempts < MaxAttempts
          THEN /\ fin' = [fin EXCEPT ![p] = s]
               /\ UNCHANGED <<hasMeta, metaJson>>
          ELSE LET m == [s.meta EXCEPT !["finalizeError"] = "Timeout"]
               IN /\ metaJson' = [metaJson EXCEPT ![a] = m]
                  /\ hasMeta' = hasMeta \cup {a}
                  /\ fin' = [fin EXCEPT ![p] = Finish(s, "timeout", OutputExists(a))]
    /\ UNCHANGED <<call, envOk, gdrive, dirs, inputJpg, outputPng, run, pending, res>>

\* Download whose Drive upload is not inside a try: its failure escapes
\* after output.png was written and before meta.json is.
Download_DriveFatal(p, ok, uploadOk) ==
    /\ fin[p].pc = "downloading"
    /\ LET s == fin[p]
           a == s.archive_id
           folder == s.meta["driveFolderId"]
           m2 == [s.meta EXCEPT !["driveOutputUploadedAt"] = "ts",
                                !["outputUrl"] = s.image_url, !["finalizedAt"] = "ts"]
       IN IF ~ok
          THEN /\ fin' = [fin EXCEPT ![p] = Finish(s, "raised", OutputExists(a))]
               /\ UNCHANGED <<hasMeta, metaJson, outputPng>>
          ELSE IF gdrive /\ folder \notin {Absent, Null} /\ ~uploadOk
          THEN /\ outputPng' = [outputPng EXCEPT ![a] = Content(s.image_url)]
               /\ fin' = [fin EXCEPT ![p] = Finish(s, "raised", TRUE)]
               /\ UNCHANGED <<hasMeta, metaJson>>
          ELSE /\ outputPng' = [outputPng EXCEPT ![a] = Content(s.image_url)]
               /\ metaJson' = [metaJson EXCEPT ![a] =
                     IF gdrive /\ folder \notin {Absent, Null} THEN m2
                     ELSE [m2 EXCEPT !["driveOutputUploadedAt"] = s.meta["driveOutputUploadedAt"]]]
               /\ hasMeta' = hasMeta \cup {a}
               /\ fin' = [fin EXCEPT ![p] = Finish(s, "saved", TRUE)]
    /\ UNCHANGED <<call, envOk, gdrive, dirs, inputJpg, run, pending, res>>

\* The GET of the output and everything after it.
Download(p, ok, uploadOk) ==
    /\ fin[p].pc = "downloading"
    /\ LET s == fin[p]
           a == s.archive_id
       IN IF ~ok
          THEN /\ fin' = [fin EXCEPT ![p] = Finish(s, "raised", OutputExists(a))]
               /\ UNCHANGED <<hasMeta, metaJson, outputPng>>
          ELSE LET folder == s.meta["driveFolderId"]
                   m1 == IF gdrive /\ folder \notin {Absent, Null} /\ uploadOk
                         THEN [s.meta EXCEPT !["driveOutputUploadedAt"] = "ts"]
                         ELSE s.meta
                   m2 == [m1 EXCEPT !["outputUrl"] = s.image_url, !["finalizedAt"] = "ts"]
               IN /\ outputPng' = [outputPng EXCEPT ![a] = Content(s.image_url)]
                  /\ metaJson' = [metaJson EXCEPT ![a] = m2]
                  /\ hasMeta' = hasMeta \cup {a}
                  /\ fin' = [fin EXCEPT ![p] = Finish(s, "saved", TRUE)]
    /\ UNCHANGED <<call, envOk, gdrive, dirs, inputJpg, run, pending, res>>

\* ------------------------------------------------------------ entry points

\* The archive ids a client can name: the ones /api/run has returned, and
\* ids of its own making.  An id make_archive_id has drawn (a timestamp and
\* eight hex digits of a uuid4) is not known before /api/run returns it.
ClientKnows(a) == a \notin inputJpg \/ (a \in hasMeta /\ metaJson[a]["archiveId"] # Absent)

\* The background task added by api_run starts.
StartBackground(p) ==
    /\ Free(p)
    /\ \E job \in pending :
        /\ pending' = pending \ {job}
        /\ FinalizeEntry(p, "background", job[1], job[2])
    /\ UNCHANGED <<call, envOk, gdrive, inputJpg, hasMeta, metaJson, outputPng, run, res>>

api_finalize(p, taskId, archiveId) ==
    /\ Free(p)
    /\ ClientKnows(archiveId)
    /\ FinalizeEntry(p, "finalize", taskId, archiveId)
    /\ UNCHANGED <<call, envOk, gdrive, inputJpg, hasMeta, metaJson, outputPng, run, pending, res>>

api_download(p, taskId, archiveId) ==
    /\ Free(p)
    /\ ClientKnows(archiveId)
    /\ IF ~OutputExists(archiveId)
       THEN FinalizeEntry(p, "download", taskId, archiveId)
       ELSE /\ dirs' = dirs \cup {archiveId}
            /\ fin' = [Reaped(fin) EXCEPT ![p] =
                  Finish([IdleSlot EXCEPT !.origin = "download", !.task_id = taskId,
                                          !.archive_id = archiveId], "served", TRUE)]
    /\ UNCHANGED <<call, envOk, gdrive, inputJpg, hasMeta, metaJson, outputPng, run, pending, res>>

\* --------------------------------------------------------- specifications

\* In the two specifications of the whole server the poll loop is followed
\* one iteration at a time for its first EarlyAttempts attempts and then in
\* one stride to its last attempt: the answer that ends the loop comes early,
\* at the last attempt, or never.
Stride(p) ==
    IF fin[p].attempts < EarlyAttempts THEN 1 ELSE MaxAttempts - fin[p].attempts

\* The whole server, the requests that call finalize_job served one after
\* the other.
Next ==
    \/ \E tpl \in Templates, seedIn \in Seeds, folderOk \in BOOLEAN, uploadOk \in BOOLEAN :
         RunBegin(tpl, seedIn, folderOk, uploadOk)
    \/ \E ans \in CreateAnswers : RunCreateResp(ans)
    \/ StartBackground("p1")
    \/ \E t \in Task, a \in Arch : api_finalize("p1", t, a)
    \/ \E t \in Task, a \in Arch : api_download("p1", t, a)
    \/ \E ans \in OutputAnswers : Poll("p1", Stride("p1"), ans)
    \/ \E ok \in BOOLEAN, uploadOk \in BOOLEAN : Download("p1", ok, uploadOk)
    \/ \E t \in Task : ResultBegin(t)
    \/ \E ans \in OutputAnswers : ResultAnswer(ans)

Spec == Init /\ [][Next]_vars

\* The whole server with two invocations of finalize_job in flight at once,
\* for one kind of submission and one output URL.
RaceAnswers == {Raise, 1, 2}

RaceNext ==
    \/ \E folderOk \in BOOLEAN, uploadOk \in BOOLEAN :
         RunBegin("fai_chun_01", Null, folderOk, uploadOk)
    \/ \E ans \in CreateAnswers : RunCreateResp(ans)
    \/ \E p \in Procs : StartBackground(p)
    \/ \E p \in Procs, t \in Task, a \in Arch : api_finalize(p, t, a)
    \/ \E p \in Procs, t \in Task, a \in Arch : api_download(p, t, a)
    \/ \E p \in Procs, ans \in RaceAnswers : Poll(p, Stride(p), ans)
    \/ \E p \in Procs, ok \in BOOLEAN, uploadOk \in BOOLEAN : Download(p, ok, uploadOk)

SpecRace == Init /\ [][RaceNext]_vars

\* One job from its submission on, its finalize invocations one after the
\* other, the poll loop followed iteration by iteration.
SubmittedMeta(folder) ==
    SetKeys(EmptyMeta,
        << <<"archiveId", "a1">>, <<"taskId", "t1">>, <<"templateId", "fai_chun_01">>,
           <<"seed", "random">>, <<"createdAt", "ts">>, <<"driveFolderId", folder>> >>)

LoopInit ==
    /\ envOk = TRUE
    /\ gdrive \in BOOLEAN
    /\ dirs = {"a1"}
    /\ inputJpg = {"a1"}
    /\ hasMeta = {"a1"}
    /\ \E folder \in (IF gdrive THEN {"folder", Null} ELSE {Null}) :
         metaJson = [a \in Arch |-> IF a = "a1" THEN SubmittedMeta(folder) ELSE EmptyMeta]
    /\ outputPng = [a \in Arch |-> NoBytes]
    /\ run = [IdleRun EXCEPT !.pc = "done", !.archive_id = "a1", !.create = "ok",
                             !.task_id = "t1", !.http = "200"]
    /\ pending = {<<"t1", "a1">>}
    /\ fin = [p \in Procs |-> IdleSlot]
    /\ res = IdleResult
    /\ call = NoCall

LoopNext ==
    \/ StartBackground("p1")
    \/ \E t \in Task, a \in Arch : api_finalize("p1", t, a)
    \/ \E t \in Task, a \in Arch : api_download("p1", t, a)
    \/ \E ans \in OutputAnswers : Poll("p1", 1, ans)
    \/ \E ok \in BOOLEAN, uploadOk \in BOOLEAN : Download("p1", ok, uploadOk)

SpecLoop == LoopInit /\ [][LoopNext]_vars

\* The same with an upstream whose every answer without a URL is a failure:
\* a network error or an HTTP status >= 400 (rh_post_json raises), or a body
\* that is not JSON.
FailedAnswers == {Raise, 5}
FlakyAnswers == FailedAnswers \cup {3}

FlakyNext ==
    \/ StartBackground("p1")
    \/ \E t \in Task, a \in Arch : api_finalize("p1", t, a)
    \/ \E t \in Task, a \in Arch : api_download("p1", t, a)
    \/ \E ans \in FlakyAnswers : Poll("p1", 1, ans)
    \/ \E ok \in BOOLEAN, uploadOk \in BOOLEAN : Download("p1", ok, uploadOk)

SpecFlaky == LoopInit /\ [][FlakyNext]_vars

\* The process ends and starts again (uvicorn runs with reload=True): what
\* is in memory is gone, every request and task in flight with it; the
\* archive on disk stays.
Restart ==
    /\ run' = IdleRun
    /\ pending' = {}
    /\ fin' = [p \in Procs |-> IdleSlot]
    /\ res' = IdleResult
    /\ UNCHANGED <<call, envOk, gdrive, dirs, inputJpg, hasMeta, metaJson, outputPng>>

\* The process ends inside finalize_job between the write of output.png and
\* the write of meta.json (the Drive upload runs between the two).
RestartInDownload(p) ==
    /\ fin[p].pc = "downloading"
    /\ outputPng' = [outputPng EXCEPT ![fin[p].archive_id] = Content(fin[p].image_url)]
    /\ run' = IdleRun
    /\ pending' = {}
    /\ fin' = [q \in Procs |-> IdleSlot]
    /\ res' = IdleResult
    /\ UNCHANGED <<call, envOk, gdrive, dirs, inputJpg, hasMeta, metaJson>>

\* One job from its submission on, with restarts.
RestartNext ==
    \/ StartBackground("p1")
    \/ \E t \in Task, a \in Arch : api_finalize("p1", t, a)
    \/ \E t \in Task, a \in Arch : api_download("p1", t, a)
    \/ \E ans \in OutputAnswers : Poll("p1", Stride("p1"), ans)
    \/ \E ok \in BOOLEAN, uploadOk \in BOOLEAN : Download("p1", ok, uploadOk)
    \/ Restart
    \/ RestartInDownload("p1")

SpecRestart == LoopInit /\ [][RestartNext]_vars

\* The helpers extract_task_id and find_first_http_url called on their own,
\* on every response of a bounded family.

\* The text under an id key: not set, empty, or an identifier.
IdTexts == {Absent, "", "t1", "t2"}

\* The entry of a dict literal for key, when it is set.
Entry(key, x) == IF x = Absent THEN <<>> ELSE << <<key, JStr(x)>> >>

\* What "data" may hold in a create-job response.
DataDicts ==
    { JDict(Entry("taskId", x) \o Entry("task_id", y) \o Entry("id", z)
            \o (IF w THEN << <<"taskStatus", JStr("QUEUED")>> >> ELSE <<>>)) :
        x \in IdTexts, y \in IdTexts, z \in IdTexts, w \in BOOLEAN }

DataVals == DataDicts \cup {JNull, JStr("t1"), JStr(""), JNum, JList(<<>>)}

CreateResponses ==
    { JDict(d \o Entry("taskId", x) \o Entry("task_id", y)) :
        d \in {<<>>} \cup { << <<"data", v>> >> : v \in DataVals },
        x \in IdTexts, y \in IdTexts }

\* Nested outputs: strings that are URLs or not, numbers, dicts of one or
\* two entries and lists, three levels deep.
UrlKeys == {"fileUrl", "url", "file", "path", "data"}
Leaves == {JStr("u1"), JStr("u2"), JStr("/tmp/out.png"), JNum}
SmallDicts == { JDict(<< <<key, v>> >>) : key \in UrlKeys, v \in Leaves }
Inner == Leaves \cup SmallDicts \cup { JList(<<d>>) : d \in SmallDicts }

OutputValues ==
    Inner
    \cup { JList(<<v1, v2>>) : v1 \in Inner, v2 \in Inner }
    \cup { JDict(<< <<kk[1], v1>>, <<kk[2], v2>> >>) :
             kk \in { pr \in UrlKeys \X UrlKeys : pr[1] # pr[2] },
             v1 \in Inner, v2 \in Inner }

\* find_first_http_url's result as a JSON value (None, or the string)
UrlValue(u) == IF u = NoUrl THEN JNull ELSE JStr(u)

CallsInit ==
    /\ envOk = TRUE
    /\ gdrive = FALSE
    /\ dirs = {}
    /\ inputJpg = {}
    /\ hasMeta = {}
    /\ metaJson = [a \in Arch |-> EmptyMeta]
    /\ outputPng = [a \in Arch |-> NoBytes]
    /\ run = IdleRun
    /\ pending = {}
    /\ fin = [p \in Procs |-> IdleSlot]
    /\ res = IdleResult
    /\ call \in { [NoCall EXCEPT !.fn = "extract_task_id", !.arg = r] : r \in CreateResponses }
           \cup { [NoCall EXCEPT !.fn = "find_first_http_url", !.arg = v] : v \in OutputValues }

CallExtractTaskId ==
    /\ call.fn = "extract_task_id"
    /\ ~call.returned
    /\ call' = [call EXCEPT !.returned = TRUE, !.ret = extract_task_id(call.arg)]
    /\ UNCHANGED <<envOk, gdrive, dirs, inputJpg, hasMeta, metaJson, outputPng, run, pending, fin, res>>

CallFindFirstHttpUrl ==
    /\ call.fn = "find_first_http_url"
    /\ ~call.returned
    /\ call' = [call EXCEPT !.returned = TRUE, !.ret = UrlValue(find_first_http_url(call.arg))]
    /\ UNCHANGED <<envOk, gdrive, dirs, inputJpg, hasMeta, metaJson, outputPng, run, pending, fin, res>>

CallsNext ==
    \/ CallExtractTaskId
    \/ CallFindFirstHttpUrl

SpecCalls == CallsInit /\ [][CallsNext]_vars

\* ------------------------------------------------------------------ claims

\* An archive id that /api/run has drawn: only api_run writes input.jpg.
Submitted(a) == a \in inputJpg

\* finalize_job is called in slot p by this step, from /api/finalize or as
\* the background task.
Called(p) ==
    /\ Answered(p)
    /\ fin'[p] # fin[p]
    /\ fin'[p].origin \in {"finalize", "background"}

\* C1: a call of finalize_job while output.png exists returns at once: it
\* makes no call to the outputs endpoint and no download, and it leaves
\* output.png and meta.json as they are.
C1_FinalizeNoOp ==
    [][\A p \in Procs :
         (Called(p) /\ OutputExists(fin'[p].archive_id))
         => /\ fin'[p].pc = "done"
            /\ fin'[p].attempts = 0
            /\ fin'[p].polled = "none"
            /\ outputPng' = outputPng
            /\ metaJson' = metaJson
            /\ hasMeta' = hasMeta]_vars

C1_Witness ==
    \E p \in Procs :
        /\ fin[p].pc = "done"
        /\ fin[p].origin = "finalize"
        /\ fin[p].outcome = "already"
        /\ OutputExists(fin[p].archive_id)

\* C2: once output.png exists for the archive id of a submission, no
\* invocation of finalize_job on that id polls upstream again or writes
\* output.png again.
C2_CommittedOnce ==
    [][\A p \in Procs :
         (/\ fin[p].pc \in {"polling", "downloading"}
          /\ Submitted(fin[p].archive_id)
          /\ OutputExists(fin[p].archive_id))
         => /\ fin'[p].attempts = fin[p].attempts
            /\ fin'[p].outcome # "saved"]_vars

C4_StopsAtFirstUrl ==
    /\ [](\A p \in Procs :
            /\ (fin[p].pc = "polling" => fin[p].image_url = NoUrl)
            /\ (fin[p].pc = "downloading"
                => fin[p].image_url \in Urls /\ fin[p].attempts \in 1..MaxAttempts))
    /\ [][\A p \in Procs :
            fin[p].pc = "downloading"
            => /\ fin'[p].pc \in {"downloading", "done"}
               /\ fin'[p].attempts = fin[p].attempts
               /\ fin'[p].image_url = fin[p].image_url
               /\ (fin'[p].outcome = "saved"
                   => /\ outputPng'[fin[p].archive_id] = Content(fin[p].image_url)
                      /\ metaJson'[fin[p].archive_id]["outputUrl"] = fin[p].image_url)]_vars

C4_Witness ==
    \E p \in Procs :
        /\ fin[p].outcome = "saved"
        /\ fin[p].attempts = MaxAttempts
        /\ fin[p].image_url = "u2"
        /\ outputPng[fin[p].archive_id] = "png2"

\* C5: an invocation of finalize_job on the archive id of a submission never
\* raises to its caller, and /api/finalize always answers {ok: true}.
C5_NeverRaises ==
    \A p \in Procs :
        (fin[p].pc = "done" /\ Submitted(fin[p].archive_id))
        => /\ fin[p].outcome # "raised"
           /\ (fin[p].origin = "finalize" => fin[p].http = "200ok")

\* C6: the meta.json of a submission never holds finalizeError together with
\* outputUrl or finalizedAt.
C6_ExclusiveOutcomes ==
    \A a \in hasMeta :
        (Submitted(a) /\ metaJson[a]["finalizeError"] # Absent)
        => metaJson[a]["outputUrl"] = Absent /\ metaJson[a]["finalizedAt"] = Absent

\* C7: a Drive failure never changes what is written locally.  /api/run
\* answers 500 only for missing credentials or a failed create call, and a
\* create call that gave a task id leaves input.jpg and meta.json written; a
\* finalize whose download succeeded has written output.png and a meta.json
\* with outputUrl and finalizedAt, one whose download failed has written
\* nothing.
C7_MirrorNeverFatal ==
    /\ [](run.pc = "done"
          => /\ (run.http = "500" <=> (~envOk \/ run.create = "failed"))
             /\ (run.create = "ok"
                 => /\ run.http = "200"
                    /\ run.archive_id \in inputJpg
                    /\ run.archive_id \in hasMeta
                    /\ metaJson[run.archive_id]["taskId"] = run.task_id))
    /\ [][\A p \in Procs :
            (fin[p].pc = "downloading" /\ fin'[p].pc = "done")
            => \/ /\ fin'[p].outcome = "saved"
                  /\ outputPng'[fin[p].archive_id] = Content(fin[p].image_url)
                  /\ fin[p].archive_id \in hasMeta'
                  /\ metaJson'[fin[p].archive_id]["outputUrl"] = fin[p].image_url
                  /\ metaJson'[fin[p].archive_id]["finalizedAt"] # Absent
               \/ /\ fin'[p].outcome = "raised"
                  /\ outputPng' = outputPng
                  /\ metaJson' = metaJson]_vars

\* The Drive folder exists, the upload of output.png failed, and the archive
\* is complete.
C7_Witness ==
    /\ gdrive
    /\ \E a \in hasMeta :
        /\ a \in inputJpg
        /\ metaJson[a]["driveFolderId"] = "folder"
        /\ metaJson[a]["driveOutputUploadedAt"] = Absent
        /\ metaJson[a]["outputUrl"] # Absent
        /\ metaJson[a]["finalizedAt"] # Absent
        /\ OutputExists(a)

\* C8: /api/download for the archive id of a submission answers with the
\* file whenever output.png exists once it is done, and with 404 in every
\* case where it does not; it serves an output.png that exists without
\* calling finalize_job.
C8_DownloadAnswers ==
    \A p \in Procs :
        (fin[p].pc = "done" /\ fin[p].origin = "download" /\ Submitted(fin[p].archive_id))
        => /\ fin[p].http = (IF OutputExists(fin[p].archive_id) THEN "200file" ELSE "404")
           /\ (fin[p].outcome = "served" => fin[p].attempts = 0)

\* C9: every poll of an invocation sends the taskId stored in the meta.json
\* of its archive id.
C9_PollsStoredTask ==
    \A p \in Procs :
        (/\ fin[p].polled # "none"
         /\ fin[p].archive_id \in hasMeta
         /\ metaJson[fin[p].archive_id]["taskId"] # Absent)
        => fin[p].polled = metaJson[fin[p].archive_id]["taskId"]

\* C10: with the API key or the workflow id missing, /api/run, /api/result,
\* /api/finalize and a /api/download that has to finalize answer 500 and
\* make no upstream call.
C10_ConfigError ==
    ~envOk
    => /\ (run.pc # "idle" => run.http = "500" /\ run.create = "none")
       /\ (res.pc # "idle" => res.http = "500" /\ res.polled = "none")
       /\ \A p \in Procs :
            (fin[p].origin = "finalize" \/ (fin[p].origin = "download" /\ fin[p].outcome # "served"))
            => fin[p].http = "500" /\ fin[p].polled = "none"

\* An identifier: a string that is not empty.
IsId(v) == v.k = "str" /\ v.s # ""

\* The places of a create-job response where a task id is recognized, in
\* priority order.
Recognized(resp) ==
    LET data == Get(resp, "data") IN
    << data, Get(data, "taskId"), Get(data, "task_id"), Get(data, "id"),
       Get(resp, "taskId"), Get(resp, "task_id") >>

HoldsId(resp) == \E i \in 1..6 : IsId(Recognized(resp)[i])

FirstId(resp) ==
    Recognized(resp)[CHOOSE i \in 1..6 :
        IsId(Recognized(resp)[i]) /\ \A j \in 1..(i-1) : ~IsId(Recognized(resp)[j])]

\* C11: extract_task_id returns the identifier of every create-job response
\* that holds one in a recognized place (the first in priority order), and
\* nothing usable as a task id for a response that holds none.
C11_ExtractsTaskId ==
    (call.fn = "extract_task_id" /\ call.returned)
    => IF HoldsId(call.arg) THEN call.ret = FirstId(call.arg) ELSE ~Truthy(call.ret)

\* A string value that starts with "http".
IsUrl(v) == v.k = "str" /\ v.s \in {"u1", "u2"}

\* The URL a dict holds under its candidate key of highest priority.
OwnUrl(x) ==
    IF IsUrl(Get(x, "fileUrl")) THEN Get(x, "fileUrl").s
    ELSE IF IsUrl(Get(x, "url")) THEN Get(x, "url").s
    ELSE IF IsUrl(Get(x, "file")) THEN Get(x, "file").s
    ELSE IF IsUrl(Get(x, "path")) THEN Get(x, "path").s
    ELSE NoUrl

\* The first URL of a depth-first traversal: at a dict its own candidate
\* keys by priority, then its values in order; at a list its elements in
\* order.
RECURSIVE FirstUrl(_)
RECURSIVE FirstUrlIn(_)
FirstUrlIn(items) ==
    IF items = <<>> THEN NoUrl
    ELSE LET u == FirstUrl(Head(items).val)
         IN IF u # NoUrl THEN u ELSE FirstUrlIn(Tail(items))

FirstUrl(x) ==
    IF x.k = "list" THEN FirstUrlIn(x.items)
    ELSE IF x.k = "dict" THEN
        (IF OwnUrl(x) # NoUrl THEN OwnUrl(x) ELSE FirstUrlIn(x.items))
    ELSE NoUrl

\* Some dict of the structure holds a URL under a candidate key.
RECURSIVE AnyUrl(_)
AnyUrl(x) ==
    \/ x.k = "dict" /\ OwnUrl(x) # NoUrl
    \/ x.k \in {"list", "dict"} /\ \E i \in DOMAIN x.items : AnyUrl(x.items[i].val)

\* C12: find_first_http_url returns the first URL held under a candidate
\* key in depth-first order, the candidate keys of one dict taken by
\* priority fileUrl, url, file, path; it returns None exactly when no
\* candidate key of the structure holds a URL.
C12_FirstUrl ==
    (call.fn = "find_first_http_url" /\ call.returned)
    => /\ call.ret = UrlValue(FirstUrl(call.arg))
       /\ (call.ret = JNull <=> ~AnyUrl(call.arg))

\* A dict whose lower-priority key comes first and whose first value nests
\* a URL of its own: the dict's own fileUrl wins.
C12_Witness ==
    /\ call.fn = "find_first_http_url"
    /\ call.returned
    /\ call.arg = JDict(<< <<"data", JDict(<< <<"path", JStr("u1")>> >>)>>,
                           <<"fileUrl", JStr("u2")>> >>)
    /\ call.ret = JStr("u2")

\* C13: every archive directory and every meta.json belongs to an archive
\* id that /api/run has issued.
C13_OnlySubmissionCreates ==
    /\ dirs \subseteq inputJpg
    /\ hasMeta \subseteq inputJpg

\* The meta.json that /api/run has written for an archive id.
Persisted(a) == a \in hasMeta /\ metaJson[a]["archiveId"] # Absent

\* C14: once /api/run has written meta.json, no step removes the file or
\* changes its archiveId, taskId, templateId or seed.
C14_SubmissionFieldsKept ==
    [][\A a \in Arch :
         Persisted(a)
         => /\ a \in hasMeta'
            /\ \A key \in {"archiveId", "taskId", "templateId", "seed"} :
                 metaJson'[a][key] = metaJson[a][key]]_vars

\* A record rewritten by a finalize that timed out and by one that saved.
C14_Witness ==
    \E a \in Arch :
        /\ Persisted(a)
        /\ metaJson[a]["taskId"] = "t1"
        /\ metaJson[a]["templateId"] = "fai_chun_01"
        /\ metaJson[a]["finalizeError"] # Absent
        /\ metaJson[a]["outputUrl"] # Absent

\* C15: a poll that fails (rh_post_json raises, or the body is not JSON)
\* counts as one attempt and does not end finalize_job: the invocation goes
\* on polling unless that was its last attempt, and no poll step ever makes
\* it raise.
C15_FailedPollSwallowed ==
    [][\A p \in Procs :
         /\ \A ans \in FailedAnswers :
              Poll(p, 1, ans)
              => /\ fin'[p].attempts = fin[p].attempts + 1
                 /\ fin'[p].pc = (IF fin'[p].attempts < MaxAttempts THEN "polling" ELSE "done")
                 /\ fin'[p].outcome = (IF fin'[p].attempts < MaxAttempts THEN "none" ELSE "timeout")
         /\ (fin[p].pc = "polling" => fin'[p].outcome # "raised")]_vars

\* MaxAttempts - 1 failed polls, then a URL at the last attempt, saved.
C15_Witness ==
    \E p \in Procs :
        /\ fin[p].outcome = "saved"
        /\ fin[p].attempts = MaxAttempts
        /\ OutputExists(fin[p].archive_id)
        /\ metaJson[fin[p].archive_id]["outputUrl"] = fin[p].image_url

\* finalize_job is called in slot p by this step, from any of its callers,
\* on an archive id without output.png.
Entered(p) ==
    /\ Answered(p)
    /\ fin'[p] # fin[p]
    /\ fin'[p].origin # "none"
    /\ ~OutputExists(fin'[p].archive_id)

\* C16: a call of finalize_job on an archive id whose meta.json holds
\* finalizeError and that has no output.png starts polling with no attempt
\* used; the budget of every invocation is MaxAttempts.
C16_RetryAfterTimeout ==
    /\ [][\A p \in Procs :
            (/\ Entered(p)
             /\ fin'[p].archive_id \in hasMeta
             /\ metaJson[fin'[p].archive_id]["finalizeError"] # Absent)
            => /\ fin'[p].pc = "polling"
               /\ fin'[p].attempts = 0]_vars
    /\ [](\A p \in Procs :
            fin[p].pc = "polling" => fin[p].attempts < MaxAttempts)

\* After a timeout, a later invocation has saved the output at its own
\* last attempt.
C16_Witness ==
    \E p \in Procs :
        /\ fin[p].outcome = "saved"
        /\ fin[p].attempts = MaxAttempts
        /\ metaJson[fin[p].archive_id]["finalizeError"] # Absent
        /\ outputPng[fin[p].archive_id] = Content(fin[p].image_url)

\* The process has started again since the submission: nothing of /api/run
\* is in memory while its input.jpg is on disk.
Restarted == run.pc = "idle" /\ inputJpg # {}

\* C17: after a restart, a /api/finalize or /api/download on a submitted
\* archive id that has returned without timing out and without raising has
\* left the entry complete: output.png exists and meta.json holds outputUrl
\* and finalizedAt.
C17_RestartRecovers ==
    Restarted
    => \A p \in Procs :
         (/\ fin[p].pc = "done"
          /\ fin[p].origin \in {"finalize", "download"}
          /\ Submitted(fin[p].archive_id)
          /\ fin[p].outcome \in {"already", "saved", "served"})
         => /\ OutputExists(fin[p].archive_id)
            /\ metaJson[fin[p].archive_id]["outputUrl"] # Absent
            /\ metaJson[fin[p].archive_id]["finalizedAt"] # Absent

\* An invocation of finalize_job is in progress on archive id a.
InProgress(a) ==
    \E p \in Procs : fin[p].pc \in {"polling", "downloading"} /\ fin[p].archive_id = a

\* C18: when output.png of a submitted archive id exists and no invocation
\* of finalize_job is in progress on it, its meta.json holds outputUrl and
\* finalizedAt.
C18_RecordComplete ==
    \A a \in Arch :
        (Submitted(a) /\ OutputExists(a) /\ ~InProgress(a))
        => /\ a \in hasMeta
           /\ metaJson[a]["outputUrl"] # Absent
           /\ metaJson[a]["finalizedAt"] # Absent

\* C19: a background finalize is scheduled only for a task id that the
\* create call returned and that meta.json holds; the step that ends
\* /api/run either writes meta.json with the task id, schedules the finalize
\* and answers 200, or answers 500 and writes and schedules nothing.
C19_ScheduleAfterPersist ==
    /\ [](\A job \in pending :
            /\ job[2] \in hasMeta
            /\ metaJson[job[2]]["taskId"] = job[1])
    /\ [][(run.pc = "creating" /\ run'.pc = "done")
          => \/ /\ run'.create = "ok"
                /\ run'.http = "200"
                /\ run.archive_id \in hasMeta'
                /\ metaJson'[run.archive_id]["taskId"] = run'.task_id
                /\ pending' = pending \cup {<<run'.task_id, run.archive_id>>}
             \/ /\ run'.create = "failed"
                /\ run'.http = "500"
                /\ hasMeta' = hasMeta
                /\ metaJson' = metaJson
                /\ pending' = pending]_vars

\* The create call failed: input.jpg is there, meta.json is not, nothing is
\* scheduled.
C19_Witness ==
    /\ run.pc = "done"
    /\ run.create = "failed"
    /\ run.http = "500"
    /\ run.archive_id \in inputJpg \ hasMeta
    /\ pending = {}

====
